---- MODULE Spec2Model ----
(***************************************************************************)
(* Model of the paper-analysis backend: backend/app/main.py (the           *)
(* /analyze-paper handler) and backend/app/analyzer.py (PaperAnalyzer).    *)
(*                                                                         *)
(* Python strings are sequences of one-character strings, so that          *)
(* endswith, strip, split, slicing and f-string concatenation are computed *)
(* and not assumed.  A JSON object / Python dict is a TLA+ function whose  *)
(* DOMAIN is the set of keys that are present.                             *)
(***************************************************************************)
EXTENDS Integers, Sequences, FiniteSets, TLC

VARIABLES
    pc,              \* position of the operation that is running
    file,            \* the upload: [filename, size, pdf]
    text,            \* analyze_paper's local `text`
    topics,          \* the topic list (oracle reply / argument)
    all_topics,      \* find_related_papers: the flattened query list
    qi,              \* find_related_papers: number of queries already handled
    related_papers,  \* find_related_papers: the accumulated result
    provider_log,    \* every provider call issued: [query, topic_name, outcome]
    stages,          \* the stages the orchestrator has started, in order
    response         \* what the operation handed back to its caller

vars == <<pc, file, text, topics, all_topics, qi, related_papers,
          provider_log, stages, response>>

----------------------------------------------------------------------------
(* Strings *)

RECURSIVE Repeat(_, _)
Repeat(c, n) == IF n = 0 THEN <<>> ELSE <<c>> \o Repeat(c, n - 1)

RECURSIVE Concat(_)
\* the concatenation of a sequence of sequences
Concat(ss) == IF ss = <<>> THEN <<>> ELSE Head(ss) \o Concat(Tail(ss))

\* str.endswith
EndsWith(s, suffix) ==
    /\ Len(s) >= Len(suffix)
    /\ SubSeq(s, Len(s) - Len(suffix) + 1, Len(s)) = suffix

\* str.startswith
StartsWith(s, prefix) ==
    /\ Len(s) >= Len(prefix)
    /\ SubSeq(s, 1, Len(prefix)) = prefix

Whitespace == {" ", "\n", "\t"}

RECURSIVE LStrip(_)
LStrip(s) == IF s # <<>> /\ Head(s) \in Whitespace THEN LStrip(Tail(s)) ELSE s
RECURSIVE RStrip(_)
RStrip(s) ==
    IF s # <<>> /\ s[Len(s)] \in Whitespace THEN RStrip(SubSeq(s, 1, Len(s) - 1)) ELSE s
\* str.strip()
Strip(s) == RStrip(LStrip(s))

RECURSIVE UpTo(_, _)
\* s.split(c)[0]: the part of s before the first c
UpTo(s, c) == IF s = <<>> \/ Head(s) = c THEN <<>> ELSE <<Head(s)>> \o UpTo(Tail(s), c)

RECURSIVE AfterLast(_, _)
\* s.split(c)[-1]: the part of s after the last c
AfterLast(s, c) ==
    IF s = <<>> \/ s[Len(s)] = c THEN <<>>
    ELSE AfterLast(SubSeq(s, 1, Len(s) - 1), c) \o <<s[Len(s)]>>

Str_topic_    == <<"t", "o", "p", "i", "c", "_">>
Str_subtopic_ == <<"s", "u", "b", "t", "o", "p", "i", "c", "_">>
Str_main      == <<"m", "a", "i", "n">>
Str_pdf       == <<".", "p", "d", "f">>
Ellipsis      == <<".", ".", ".">>

----------------------------------------------------------------------------
(* PaperAnalyzer.create_graph_data *)

\* the display cap of the main paper title
TitleCap == 50

\* short_title = main_paper_title[:50] + "..." if len(main_paper_title) > 50 else main_paper_title
ShortTitle(main_paper_title) ==
    IF Len(main_paper_title) > TitleCap
    THEN SubSeq(main_paper_title, 1, TitleCap) \o Ellipsis
    ELSE main_paper_title

\* the weight of the main node
MainVal == 20

MainNode(main_paper_title) ==
    [id |-> Str_main, name |-> ShortTitle(main_paper_title), val |-> MainVal, group |-> "main"]

\* topic.get('subtopics', [])
GetSubtopics(topic) == IF "subtopics" \in DOMAIN topic THEN topic["subtopics"] ELSE <<>>

\* main_topic_id = f"topic_{topic['topic']}"
MainTopicId(topic) == Str_topic_ \o topic["topic"]

\* mutant: the subtopic id leaves out the id of its parent
SubtopicIdWithoutParent(main_topic_id, subtopic) == Str_subtopic_ \o subtopic["topic"]

\* subtopic_id = f"subtopic_{main_topic_id}_{subtopic['topic']}"
SubtopicId(main_topic_id, subtopic) ==
    Str_subtopic_ \o main_topic_id \o <<"_">> \o subtopic["topic"]

TopicNode(topic) ==
    [id |-> MainTopicId(topic), name |-> topic["topic"],
     val |-> topic["importance"] * 2, group |-> "topic"]

\* mutant: the link carries the node's doubled weight
TopicLinkDoubled(topic) ==
    [source |-> Str_main, target |-> MainTopicId(topic), value |-> topic["importance"] * 2]

TopicLink(topic) ==
    [source |-> Str_main, target |-> MainTopicId(topic), value |-> topic["importance"]]

SubtopicNode(main_topic_id, subtopic) ==
    [id |-> SubtopicId(main_topic_id, subtopic), name |-> subtopic["topic"],
     val |-> subtopic["importance"], group |-> "subtopic"]

SubtopicLink(main_topic_id, subtopic) ==
    [source |-> main_topic_id, target |-> SubtopicId(main_topic_id, subtopic),
     value |-> subtopic["importance"]]

\* what one iteration of `for topic in topics` appends to nodes
NodesOfTopic(topic) ==
    <<TopicNode(topic)>> \o
    [j \in 1..Len(GetSubtopics(topic)) |->
        SubtopicNode(MainTopicId(topic), GetSubtopics(topic)[j])]

\* mutant: the link from the main node to the topic is not appended
LinksOfTopicWithoutMain(topic) ==
    [j \in 1..Len(GetSubtopics(topic)) |->
        SubtopicLink(MainTopicId(topic), GetSubtopics(topic)[j])]

\* what one iteration of `for topic in topics` appends to links
LinksOfTopic(topic) ==
    <<TopicLink(topic)>> \o
    [j \in 1..Len(GetSubtopics(topic)) |->
        SubtopicLink(MainTopicId(topic), GetSubtopics(topic)[j])]

\* the dictionary lookups of the loop succeed: no KeyError is raised
GraphKeysPresent(tps) ==
    \A i \in 1..Len(tps) :
        /\ {"topic", "importance"} \subseteq DOMAIN tps[i]
        /\ \A j \in 1..Len(GetSubtopics(tps[i])) :
              {"topic", "importance"} \subseteq DOMAIN GetSubtopics(tps[i])[j]

GraphNodes(main_paper_title, tps) ==
    <<MainNode(main_paper_title)>> \o Concat([i \in 1..Len(tps) |-> NodesOfTopic(tps[i])])

GraphLinks(tps) == Concat([i \in 1..Len(tps) |-> LinksOfTopic(tps[i])])

\* create_graph_data: the returned pair ({nodes, links}, related_papers), or the
\* exception that the try/except logs and re-raises
CreateGraphData(main_paper_title, tps, rel) ==
    IF GraphKeysPresent(tps)
    THEN [kind  |-> "return",
          graph |-> [nodes |-> GraphNodes(main_paper_title, tps), links |-> GraphLinks(tps)],
          related_papers |-> rel]
    ELSE [kind |-> "raise", error |-> "KeyError"]


----------------------------------------------------------------------------
(* PaperAnalyzer.find_related_papers *)

Str_id_not_found == <<"i", "d", " ", "n", "o", "t", " ", "f", "o", "u", "n", "d">>
Str_title_not_found == <<"t", "i", "t", "l", "e", " ", "n", "o", "t", " ", "f", "o", "u", "n", "d">>
Str_no_abstract_available == <<"n", "o", " ", "a", "b", "s", "t", "r", "a", "c", "t", " ", "a", "v", "a", "i", "l", "a", "b", "l", "e">>
Str_date_not_available == <<"d", "a", "t", "e", " ", "n", "o", "t", " ", "a", "v", "a", "i", "l", "a", "b", "l", "e">>

\* An XML element as entry.find() hands it back: present = FALSE is None;
\* has_text = FALSE is an element whose .text is None (<title/>).
NoElem        == [present |-> FALSE, has_text |-> FALSE, text |-> <<>>]
EmptyElem     == [present |-> TRUE,  has_text |-> FALSE, text |-> <<>>]
TextElem(s)   == [present |-> TRUE,  has_text |-> TRUE,  text |-> s]

\* elem.text.<method>() raises AttributeError when elem is there and its text is None
TextMissing(elem) == elem.present /\ ~elem.has_text

\* mutant: the title is read without the None check
EntryRaisesOnAbsentTitle(entry) ==
    \/ ~entry.title.present
    \/ TextMissing(entry.id)
    \/ TextMissing(entry.title)
    \/ TextMissing(entry.summary)
    \/ TextMissing(entry.published)
    \/ \E k \in 1..Len(entry.authors) : TextMissing(entry.authors[k])

\* the try block of `for entry in entries` raises and the entry is skipped
EntryRaises(entry) ==
    \/ TextMissing(entry.id)
    \/ TextMissing(entry.title)
    \/ TextMissing(entry.summary)
    \/ TextMissing(entry.published)
    \/ \E k \in 1..Len(entry.authors) : TextMissing(entry.authors[k])

PaperId(entry) ==
    IF entry.id.present THEN AfterLast(entry.id.text, "/") ELSE Str_id_not_found

PaperTitle(entry) ==
    IF entry.title.present THEN Strip(entry.title.text) ELSE Str_title_not_found

Summary(entry) ==
    IF entry.summary.present THEN Strip(entry.summary.text) ELSE Str_no_abstract_available

Published(entry) ==
    IF entry.published.present THEN UpTo(entry.published.text, "T") ELSE Str_date_not_available

\* authors: the stripped name of every author element that has a name element
RECURSIVE Authors(_)
Authors(author_names) ==
    IF author_names = <<>> THEN <<>>
    ELSE (IF Head(author_names).present THEN <<Strip(Head(author_names).text)>> ELSE <<>>)
         \o Authors(Tail(author_names))

\* what one entry appends to related_papers: one record, or nothing when the
\* per-entry except clause catches an error
ParseEntry(entry, topic_name) ==
    IF EntryRaises(entry) THEN <<>>
    ELSE << [id        |-> PaperId(entry),
             title     |-> PaperTitle(entry),
             summary   |-> Summary(entry),
             published |-> Published(entry),
             authors   |-> Authors(entry.authors),
             topic     |-> topic_name] >>

\* urllib.parse.quote on the characters the model uses: a space is not safe
QuoteChar(c) == IF c = " " THEN <<"%", "2", "0">> ELSE <<c>>
Quote(topic_name) == Concat([k \in 1..Len(topic_name) |-> QuoteChar(topic_name[k])])

\* the status code of a successful provider reply
StatusOK == 200

\* the provider call of one query returned a reply the loop body parses
CallSucceeded(outcome) ==
    /\ outcome.kind = "response"
    /\ outcome.status_code = StatusOK
    /\ outcome.well_formed

\* what one iteration of `for topic_name in all_topics` appends to related_papers
PapersOfQuery(topic_name, outcome) ==
    IF CallSucceeded(outcome)
    THEN Concat([k \in 1..Len(outcome.entries) |-> ParseEntry(outcome.entries[k], topic_name)])
    ELSE <<>>

\* building all_topics raises KeyError: a topic or a subtopic has no 'topic' key
FlattenRaises(tps) ==
    \E i \in 1..Len(tps) :
        \/ "topic" \notin DOMAIN tps[i]
        \/ \E j \in 1..Len(GetSubtopics(tps[i])) : "topic" \notin DOMAIN GetSubtopics(tps[i])[j]

SubtopicNames(topic) == [j \in 1..Len(GetSubtopics(topic)) |-> GetSubtopics(topic)[j]["topic"]]

\* all_topics: every main topic name, then every subtopic name
AllTopics(tps) ==
    [i \in 1..Len(tps) |-> tps[i]["topic"]] \o Concat([i \in 1..Len(tps) |-> SubtopicNames(tps[i])])

\* the whole loop, given the provider's outcome for each query
FindRelatedPapers(queries, outcomes) ==
    Concat([i \in 1..Len(queries) |-> PapersOfQuery(queries[i], outcomes[i])])


----------------------------------------------------------------------------
(* PaperAnalyzer.extract_text_from_pdf and PaperAnalyzer.extract_topics *)

\* the number of leading pages that are read
MaxPages == 10

\* pdf_reader.pages[:max_pages]
FirstPages(pages) == SubSeq(pages, 1, IF Len(pages) < MaxPages THEN Len(pages) ELSE MaxPages)

\* the inner try: a page whose extract_text() raises adds nothing
PageText(page) == IF page.raises THEN <<>> ELSE page.text

\* `text` after the page loop: the text of the first pages, in order
PagesText(pdf) ==
    Concat([k \in 1..Len(FirstPages(pdf.pages)) |-> PageText(FirstPages(pdf.pages)[k])])

\* extract_text_from_pdf(pdf): a document PdfReader cannot open raises; so does a
\* document whose first pages hold only whitespace (ValueError)
ExtractTextFromPdf(pdf) ==
    IF ~pdf.readable
    THEN [kind |-> "raise", error |-> "PdfReadError"]
    ELSE IF Strip(PagesText(pdf)) = <<>>
         THEN [kind |-> "raise", error |-> "no text could be extracted from the pdf"]
         ELSE [kind |-> "return", value |-> PagesText(pdf)]

\* extract_topics, given the oracle's reply: the parsed list, or the exception
\* (failed call, json.loads error, ValueError for a value that is not a list)
ExtractTopics(reply) ==
    CASE reply.kind = "api_error"  -> [kind |-> "raise", error |-> "APIError"]
      [] reply.kind = "not_json"   -> [kind |-> "raise", error |-> "JSONDecodeError"]
      [] reply.kind = "json_other" -> [kind |-> "raise", error |-> "openai did not return a list of topics"]
      [] reply.kind = "json_list"  -> [kind |-> "return", value |-> reply.value]

----------------------------------------------------------------------------
(* main.py: analyze_paper *)

\* 10 * 1024 * 1024
SizeLimit == 10 * 1024 * 1024

\* mutant: the suffix is compared without regard to case
LowerChar(c) == CASE c = "P" -> "p" [] c = "D" -> "d" [] c = "F" -> "f" [] OTHER -> c
FilenameAcceptedAnyCase(filename) ==
    EndsWith([k \in 1..Len(filename) |-> LowerChar(filename[k])], Str_pdf)

\* file.filename.endswith('.pdf')
FilenameAccepted(filename) == EndsWith(filename, Str_pdf)

\* len(contents) > 10 * 1024 * 1024
TooLarge(size) == size > SizeLimit

\* `if not text.strip()` in analyze_paper
TextRejected(t) == Strip(t) = <<>>

\* mutant: the empty-list check is left out
TopicsNeverRejected(tps) == FALSE

\* `if not topics` in analyze_paper
TopicsRejected(tps) == tps = <<>>

\* raise HTTPException(status_code=..., detail=...) leaving the handler
HTTPError(status_code, detail) ==
    [kind |-> "http_error", status_code |-> status_code, detail |-> detail]

\* the status of the HTTPException raised by `except Exception as e`
HandlerStatus == 500

\* `except Exception as e: raise HTTPException(status_code=500, detail=str(e))`:
\* every exception raised inside the try block, the HTTPExceptions of the
\* handler's own checks included, leaves as a 500 (detail stands for str(e))
Caught(error) == HTTPError(HandlerStatus, error)

\* `return graph_data`: the pair create_graph_data returned
Success(graph_data) ==
    [kind |-> "http_ok", graph |-> graph_data.graph, related_papers |-> graph_data.related_papers]

NoResponse == [kind |-> "none"]


----------------------------------------------------------------------------
(* The inputs the environment supplies *)

\* all sequences over U of length at most n
SeqsUpTo(U, n) == UNION {[1..k -> U] : k \in 0..n}

Name_a   == <<"a">>
Name_b   == <<"b">>
Name_a_a == <<"a", "_", "a">>
Name_a_b == <<"a", " ", "b">>

\* the status of a client error raised by the handler's own checks
ClientStatus == 400

(* uploads *)
LongFilename == Repeat("n", TitleCap - 3) \o Str_pdf
Filenames == { <<"x">> \o Str_pdf, <<"x", ".", "P", "D", "F">>, <<"x", ".", "t", "x", "t">>,
               LongFilename }
Sizes == { 1, SizeLimit, SizeLimit + 1, 15 * 1024 * 1024 }

Page(t)     == [raises |-> FALSE, text |-> t]
BrokenPage  == [raises |-> TRUE,  text |-> <<>>]
Pdfs ==
    { [readable |-> FALSE, pages |-> <<>>],
      [readable |-> TRUE,  pages |-> <<>>],
      [readable |-> TRUE,  pages |-> <<Page(<<" ", "\n">>)>>],
      [readable |-> TRUE,  pages |-> <<BrokenPage>>],
      [readable |-> TRUE,  pages |-> <<Page(<<"p">>)>>],
      [readable |-> TRUE,  pages |-> <<BrokenPage, Page(<<" ", "p">>)>>],
      [readable |-> TRUE,  pages |-> <<Page(<<"p">>), Page(<<"q">>)>>],
      [readable |-> TRUE,  pages |-> [k \in 1..(MaxPages + 1) |->
                                        IF k <= MaxPages THEN Page(<<" ">>) ELSE Page(<<"p">>)]] }

Files == [filename : Filenames, size : Sizes, pdf : Pdfs]
NoFile == [filename |-> <<>>, size |-> 0, pdf |-> [readable |-> FALSE, pages |-> <<>>]]

(* provider entries *)
RawId        == <<"x", "/", "1">>
RawId2       == <<"2">>
RawTitle     == <<" ", "t", " ">>
RawSummary   == <<"s", "\n">>
RawPublished == <<"2", "0", "T", "1">>
RawAuthor    == <<" ", "n">>

ElemStates(raw) == { NoElem, EmptyElem, TextElem(raw) }

\* every combination of absent, empty and filled fields
AllEntries ==
    [ id : ElemStates(RawId), title : ElemStates(RawTitle), summary : ElemStates(RawSummary),
      published : ElemStates(RawPublished),
      authors : { <<>>, <<TextElem(RawAuthor)>>, <<NoElem>>, <<EmptyElem>> } ]

FullEntry ==
    [ id |-> TextElem(RawId), title |-> TextElem(RawTitle), summary |-> TextElem(RawSummary),
      published |-> TextElem(RawPublished), authors |-> <<TextElem(RawAuthor)>> ]
NoTitleEntry == [FullEntry EXCEPT !.id = TextElem(RawId2), !.title = NoElem]
EmptySummaryEntry == [FullEntry EXCEPT !.summary = EmptyElem]

RepEntries == { FullEntry, NoTitleEntry, EmptySummaryEntry }

(* provider outcomes *)
CallException == [kind |-> "exception", status_code |-> 0, well_formed |-> FALSE, entries |-> <<>>]
Unavailable   == [kind |-> "response", status_code |-> 503, well_formed |-> TRUE, entries |-> <<FullEntry>>]
BadEnvelope   == [kind |-> "response", status_code |-> StatusOK, well_formed |-> FALSE, entries |-> <<>>]
Found(entries) == [kind |-> "response", status_code |-> StatusOK, well_formed |-> TRUE, entries |-> entries]

FailedOutcomes == { CallException, Unavailable, BadEnvelope }

\* the most entries one provider reply holds in the model
MaxEntries == 2

SearchOutcomes == FailedOutcomes \cup { Found(es) : es \in SeqsUpTo(RepEntries, MaxEntries) }
EntryOutcomes  == FailedOutcomes \cup { Found(<<e>>) : e \in AllEntries }
OrchOutcomes   == { CallException, Unavailable, Found(<<>>), Found(<<FullEntry>>),
                    Found(<<NoTitleEntry, EmptySummaryEntry>>) }

(* topic lists *)
Topic(name, importance, subtopics) ==
    [topic |-> name, importance |-> importance, subtopics |-> subtopics]
Sub(name, importance) == [topic |-> name, importance |-> importance]

\* the end-to-end scenario: one topic with one subtopic
ScenarioTopics == << Topic(Name_a, 9, <<Sub(Name_b, 6)>>) >>

\* objects the oracle may send that lack a key
NoSubtopicsKey == [topic |-> Name_b, importance |-> 3]
NoTopicKey     == [importance |-> 3, subtopics |-> <<>>]
NoImportance   == [topic |-> Name_a, subtopics |-> <<>>]
SubNoTopicKey  == Topic(Name_a, 3, << [importance |-> 2] >>)
SubNoImportance == Topic(Name_a, 3, << [topic |-> Name_b] >>)

OrchTopics ==
    { <<>>, ScenarioTopics, << NoSubtopicsKey, Topic(Name_a_b, 2, <<>>) >>,
      << NoTopicKey >>, << NoImportance >>, << SubNoImportance >> }

OracleReplies ==
    { [kind |-> k, value |-> <<>>] : k \in {"api_error", "not_json", "json_other"} }
    \cup { [kind |-> "json_list", value |-> tps] : tps \in OrchTopics }

\* topic lists with at most three queries
SearchInputs ==
    { <<>>, ScenarioTopics,
      << Topic(Name_a, 1, <<Sub(Name_a_b, 1)>>), Topic(Name_b, 3, <<>>) >>,
      << NoSubtopicsKey, Topic(Name_a, 1, <<Sub(Name_a_b, 1)>>) >>,
      << Topic(Name_a, 1, <<Sub(Name_a, 2), Sub(Name_a, 2)>>) >>,
      << Topic(Name_b, 1, <<>>), Topic(Name_a_b, 2, <<>>), Topic(Name_b, 3, <<>>) >>,
      << NoImportance, SubNoImportance >>,
      << NoTopicKey >>, << Topic(Name_a, 1, <<>>), NoTopicKey >>, << SubNoTopicKey >> }

EntryInputs == { << NoSubtopicsKey >>, ScenarioTopics }


\* the shape the oracle is asked for: "exactly 5 main research topics"
NumTopics == 5
\* "each main topic should have up to 3 subtopics"
MaxSubtopics == 3

ThreeSubs == << Sub(Name_a, 1), Sub(Name_b, 2), Sub(Name_a, 3) >>

\* topic lists of the requested shape: five topics, each with 0..3 subtopics,
\* the topic names either pairwise distinct or all the same
ValidTrees ==
    { [i \in 1..NumTopics |->
          Topic(IF same THEN Name_a ELSE Repeat("a", i), i, SubSeq(ThreeSubs, 1, ks[i]))] :
      ks \in [1..NumTopics -> 0..MaxSubtopics], same \in BOOLEAN }

GraphSubLists ==
    { <<>>, <<Sub(Name_a, 1)>>, <<Sub(Name_a_a, 2)>>,
      <<Sub(Name_a, 1), Sub(Name_a, 1)>>, <<Sub(Name_a, 1), Sub(Name_a, 2)>>,
      <<Sub(Name_a, 1), Sub(Name_a_a, 2)>>, <<Sub(Name_a_a, 2), Sub(Name_a, 1)>>,
      <<Sub(Name_a_a, 1), Sub(Name_b, 2), Sub(Name_a, 3)>> }

GraphTopics ==
    { Topic(n, i, ss) : n \in {Name_a, Name_a_a, Name_b}, i \in {1, 2}, ss \in GraphSubLists }
    \cup { NoSubtopicsKey, NoImportance, SubNoImportance, NoTopicKey }

\* the most topics of a freely shaped topic list
MaxFreeTopics == 2

GraphInputs == SeqsUpTo(GraphTopics, MaxFreeTopics) \cup ValidTrees

APaper ==
    [id |-> <<"1">>, title |-> <<"t">>, summary |-> <<"s">>, published |-> <<"2", "0">>,
     authors |-> <<<<"n">>>>, topic |-> Name_a]
GraphPapers == { <<>>, <<APaper, APaper>> }
GraphTitles == { <<"x">> \o Str_pdf, LongFilename }

----------------------------------------------------------------------------
(* analyze_paper, stage by stage *)

Finish(r) == response' = r /\ pc' = "done"

\* the filename check, which precedes the try block
CheckFilename ==
    /\ pc = "start"
    /\ IF FilenameAccepted(file.filename)
       THEN pc' = "read" /\ UNCHANGED response
       ELSE Finish(HTTPError(ClientStatus, "Only PDF files are accepted"))
    /\ UNCHANGED <<file, text, topics, all_topics, qi, related_papers, provider_log, stages>>

\* contents = await file.read(), and the size check
ReadFile ==
    /\ pc = "read"
    /\ stages' = Append(stages, "ReadFile")
    /\ IF TooLarge(file.size)
       THEN Finish(Caught("File too large. Please upload a smaller PDF"))
       ELSE pc' = "extract_text" /\ UNCHANGED response
    /\ UNCHANGED <<file, text, topics, all_topics, qi, related_papers, provider_log>>

\* text = analyzer.extract_text_from_pdf(contents), and the empty-text check
ExtractText ==
    /\ pc = "extract_text"
    /\ stages' = Append(stages, "ExtractText")
    /\ LET r == ExtractTextFromPdf(file.pdf)
       IN  IF r.kind = "raise"
           THEN Finish(Caught(r.error)) /\ UNCHANGED text
           ELSE /\ text' = r.value
                /\ IF TextRejected(r.value)
                   THEN Finish(Caught("Could not extract text from PDF"))
                   ELSE pc' = "extract_topics" /\ UNCHANGED response
    /\ UNCHANGED <<file, topics, all_topics, qi, related_papers, provider_log>>

\* topics = analyzer.extract_topics(text), and the empty-list check
ExtractTopicsStage ==
    /\ pc = "extract_topics"
    /\ stages' = Append(stages, "ExtractTopics")
    /\ \E reply \in OracleReplies :
          LET r == ExtractTopics(reply)
          IN  IF r.kind = "raise"
              THEN Finish(Caught(r.error)) /\ UNCHANGED topics
              ELSE /\ topics' = r.value
                   /\ IF TopicsRejected(r.value)
                      THEN Finish(Caught("Could not extract topics from the paper"))
                      ELSE pc' = "search" /\ UNCHANGED response
    /\ UNCHANGED <<file, text, all_topics, qi, related_papers, provider_log>>

\* the provider calls of a whole find_related_papers run
CallsOf(queries, outcomes) ==
    [i \in 1..Len(queries) |->
        [query |-> Quote(queries[i]), topic_name |-> queries[i], outcome |-> outcomes[i]]]

\* related_papers = analyzer.find_related_papers(topics)
SearchRelated ==
    /\ pc = "search"
    /\ stages' = Append(stages, "SearchRelated")
    /\ IF FlattenRaises(topics)
       THEN Finish(Caught("KeyError")) /\ UNCHANGED <<all_topics, related_papers, provider_log>>
       ELSE /\ all_topics' = AllTopics(topics)
            /\ \E outcomes \in [1..Len(AllTopics(topics)) -> OrchOutcomes] :
                  /\ related_papers' = FindRelatedPapers(AllTopics(topics), outcomes)
                  /\ provider_log' = CallsOf(AllTopics(topics), outcomes)
            /\ pc' = "assemble" /\ UNCHANGED response
    /\ UNCHANGED <<file, text, topics, qi>>

\* graph_data = analyzer.create_graph_data(file.filename, topics, related_papers); return
AssembleGraph ==
    /\ pc = "assemble"
    /\ stages' = Append(stages, "AssembleGraph")
    /\ LET g == CreateGraphData(file.filename, topics, related_papers)
       IN  IF g.kind = "raise" THEN Finish(Caught(g.error)) ELSE Finish(Success(g))
    /\ UNCHANGED <<file, text, topics, all_topics, qi, related_papers, provider_log>>

Init ==
    /\ pc = "start"
    /\ file \in Files
    /\ text = <<>> /\ topics = <<>> /\ all_topics = <<>> /\ qi = 0
    /\ related_papers = <<>> /\ provider_log = <<>> /\ stages = <<>>
    /\ response = NoResponse

Next ==
    \/ CheckFilename
    \/ ReadFile
    \/ ExtractText
    \/ ExtractTopicsStage
    \/ SearchRelated
    \/ AssembleGraph

Spec == Init /\ [][Next]_vars

----------------------------------------------------------------------------
(* find_related_papers, query by query *)

\* all_topics is built; a KeyError there leaves the function
Flatten ==
    /\ pc = "search_call"
    /\ IF FlattenRaises(topics)
       THEN Finish([kind |-> "raise", error |-> "KeyError"]) /\ UNCHANGED all_topics
       ELSE all_topics' = AllTopics(topics) /\ pc' = "search_loop" /\ UNCHANGED response
    /\ UNCHANGED <<file, text, topics, qi, related_papers, provider_log, stages>>

\* mutant: a failed call ends the loop (break where the code has continue)
SearchOneStopsOnFailure(outcomes) ==
    /\ pc = "search_loop"
    /\ qi < Len(all_topics)
    /\ \E outcome \in outcomes :
          /\ provider_log' = Append(provider_log,
                 [query |-> Quote(all_topics[qi + 1]), topic_name |-> all_topics[qi + 1],
                  outcome |-> outcome])
          /\ related_papers' = related_papers \o PapersOfQuery(all_topics[qi + 1], outcome)
          /\ qi' = IF CallSucceeded(outcome) THEN qi + 1 ELSE Len(all_topics)
    /\ UNCHANGED <<pc, file, text, topics, all_topics, stages, response>>

\* one iteration of `for topic_name in all_topics`, the provider answering with
\* one of `outcomes`
SearchOne(outcomes) ==
    /\ pc = "search_loop"
    /\ qi < Len(all_topics)
    /\ \E outcome \in outcomes :
          /\ provider_log' = Append(provider_log,
                 [query |-> Quote(all_topics[qi + 1]), topic_name |-> all_topics[qi + 1],
                  outcome |-> outcome])
          /\ related_papers' = related_papers \o PapersOfQuery(all_topics[qi + 1], outcome)
    /\ qi' = qi + 1
    /\ UNCHANGED <<pc, file, text, topics, all_topics, stages, response>>

\* return related_papers
SearchReturn ==
    /\ pc = "search_loop"
    /\ qi = Len(all_topics)
    /\ Finish([kind |-> "return", value |-> related_papers])
    /\ UNCHANGED <<file, text, topics, all_topics, qi, related_papers, provider_log, stages>>

InitCall(entry, inputs) ==
    /\ pc = entry
    /\ file = NoFile
    /\ topics \in inputs
    /\ text = <<>> /\ all_topics = <<>> /\ qi = 0
    /\ related_papers = <<>> /\ provider_log = <<>> /\ stages = <<>>
    /\ response = NoResponse

InitSearch == InitCall("search_call", SearchInputs)
NextSearch == Flatten \/ SearchOne(SearchOutcomes) \/ SearchReturn
SpecSearch == InitSearch /\ [][NextSearch]_vars

InitEntry == InitCall("search_call", EntryInputs)
NextEntry == Flatten \/ SearchOne(EntryOutcomes) \/ SearchReturn
SpecEntry == InitEntry /\ [][NextEntry]_vars

----------------------------------------------------------------------------
(* create_graph_data, applied to a topic list *)

CreateGraph ==
    /\ pc = "graph_call"
    /\ Finish(CreateGraphData(file.filename, topics, related_papers))
    /\ UNCHANGED <<file, text, topics, all_topics, qi, related_papers, provider_log, stages>>

InitGraph ==
    /\ pc = "graph_call"
    /\ topics \in GraphInputs
    /\ \E title \in GraphTitles : file = [NoFile EXCEPT !.filename = title]
    /\ related_papers \in GraphPapers
    /\ text = <<>> /\ all_topics = <<>> /\ qi = 0
    /\ provider_log = <<>> /\ stages = <<>>
    /\ response = NoResponse

NextGraph == CreateGraph
SpecGraph == InitGraph /\ [][NextGraph]_vars


----------------------------------------------------------------------------
(* Properties of analyze_paper (specification Spec) *)

StageOrder == <<"ReadFile", "ExtractText", "ExtractTopics", "SearchRelated", "AssembleGraph">>

IsPrefix(s, t) == Len(s) <= Len(t) /\ s = SubSeq(t, 1, Len(s))

\* the stages that do the processing: extraction, oracle, search, assembly
ProcessingStages == {"ExtractText", "ExtractTopics", "SearchRelated", "AssembleGraph"}

StagesRun == {stages[k] : k \in 1..Len(stages)}

IsClientError(r) == r.kind = "http_error" /\ r.status_code \in 400..499

\* C1: the stages of a request run in the fixed order ReadFile, ExtractText,
\* ExtractTopics, SearchRelated, AssembleGraph, each at most once; a stage has
\* run only if every earlier stage succeeded (the upload was within the size
\* limit, the extracted text was not blank, the topic list was not empty, the
\* query list could be built); a finished request has exactly one outcome, an
\* error or a success; and a success carries the graph (nodes and links) and
\* the related papers and exists only after all five stages have run.
C1_StagesInOrderNoPartialSuccess ==
    /\ IsPrefix(stages, StageOrder)
    /\ Len(stages) >= 2 => file.size <= SizeLimit
    /\ Len(stages) >= 3 => text = PagesText(file.pdf) /\ file.pdf.readable /\ Strip(text) # <<>>
    /\ Len(stages) >= 4 => Len(topics) > 0
    /\ Len(stages) >= 5 =>
          /\ ~FlattenRaises(topics)
          /\ Len(provider_log) = Len(all_topics)
    /\ response.kind \in {"none", "http_ok", "http_error"}
    /\ (pc = "done") <=> (response.kind # "none")
    /\ response.kind = "http_ok" =>
          /\ stages = StageOrder
          /\ DOMAIN response.graph = {"nodes", "links"}
          /\ Len(response.graph.nodes) = Len(response.graph.links) + 1
          /\ response.related_papers = related_papers

\* C1 witness: a request that ran every stage and answered with the graph of the
\* end-to-end scenario (three nodes, two links) and a related paper
C1_Witness ==
    /\ pc = "done"
    /\ response.kind = "http_ok"
    /\ stages = StageOrder
    /\ Len(response.graph.nodes) = 3
    /\ Len(response.graph.links) = 2
    /\ Len(response.related_papers) = 2

\* C2 (the claim as stated; the code violates it): an upload named *.pdf whose
\* payload exceeds 10 MiB ends in a client error (4xx), and no processing stage
\* has run for it.
C2_OversizeIsClientError ==
    (pc = "done" /\ EndsWith(file.filename, Str_pdf) /\ file.size > SizeLimit) =>
        /\ IsClientError(response)
        /\ StagesRun \cap ProcessingStages = {}
        /\ provider_log = <<>>

\* C3: an upload whose filename does not end in the lower-case suffix ".pdf"
\* ("x.txt", "x.PDF") is answered with a client error (4xx); its body is never
\* read and no stage runs.
C3_WrongSuffixRejected ==
    ~EndsWith(file.filename, Str_pdf) =>
        /\ stages = <<>>
        /\ provider_log = <<>>
        /\ text = <<>> /\ topics = <<>> /\ related_papers = <<>>
        /\ pc \in {"start", "done"}
        /\ pc = "done" => IsClientError(response)

\* C3 witness: "x.PDF" has been rejected with status 400
C3_Witness ==
    /\ pc = "done"
    /\ file.filename = <<"x", ".", "P", "D", "F">>
    /\ response.kind = "http_error"
    /\ response.status_code = 400
    /\ stages = <<>>

\* C4 (the claim as stated; the code violates it): when the text extracted from
\* an accepted upload is empty or only whitespace, the request ends in a client
\* error (4xx) and neither the oracle nor the search provider is called.
C4_BlankTextIsClientError ==
    (/\ pc = "done"
     /\ EndsWith(file.filename, Str_pdf)
     /\ file.size <= SizeLimit
     /\ file.pdf.readable
     /\ Strip(PagesText(file.pdf)) = <<>>) =>
        /\ IsClientError(response)
        /\ StagesRun \cap {"ExtractTopics", "SearchRelated"} = {}
        /\ provider_log = <<>>

\* the nodes of group "topic" in a graph
TopicNodes(graph) == {k \in 1..Len(graph.nodes) : graph.nodes[k].group = "topic"}

\* C11: when the ExtractTopics stage has run and left an empty topic list (the
\* oracle replied with the JSON array []), the request has ended with status
\* 500, the search provider was never called and no graph was assembled; so
\* every success response holds the main node and at least one topic node.
C11_EmptyTopicsEndIn500 ==
    /\ ("ExtractTopics" \in StagesRun /\ topics = <<>>) =>
          /\ pc = "done"
          /\ response.kind = "http_error"
          /\ response.status_code = 500
          /\ StagesRun \cap {"SearchRelated", "AssembleGraph"} = {}
          /\ provider_log = <<>>
    /\ response.kind = "http_ok" =>
          /\ Len(topics) >= 1
          /\ response.graph.nodes[1].group = "main"
          /\ Cardinality(TopicNodes(response.graph)) >= 1

\* C11 witness: the oracle's reply parsed to the empty list and the request
\* ended with the 500 of the empty-list check, after three stages
C11_Witness ==
    /\ pc = "done"
    /\ topics = <<>>
    /\ stages = <<"ReadFile", "ExtractText", "ExtractTopics">>
    /\ response.kind = "http_error"
    /\ response.status_code = 500
    /\ response.detail = "Could not extract topics from the paper"
    /\ provider_log = <<>>


----------------------------------------------------------------------------
(* Properties of find_related_papers (specifications SpecSearch, SpecEntry) *)

\* a topic list of the documented shape: every topic has a name, an importance
\* and a list of subtopics, every subtopic a name and an importance
WellFormedTree(tps) ==
    \A i \in 1..Len(tps) :
        /\ DOMAIN tps[i] = {"topic", "importance", "subtopics"}
        /\ \A j \in 1..Len(tps[i].subtopics) :
              DOMAIN tps[i].subtopics[j] = {"topic", "importance"}

RECURSIVE TopNames(_)
TopNames(tps) == IF tps = <<>> THEN <<>> ELSE <<Head(tps).topic>> \o TopNames(Tail(tps))

RECURSIVE NamesIn(_)
NamesIn(subs) == IF subs = <<>> THEN <<>> ELSE <<Head(subs).topic>> \o NamesIn(Tail(subs))

RECURSIVE SubNames(_)
SubNames(tps) ==
    IF tps = <<>> THEN <<>> ELSE NamesIn(Head(tps).subtopics) \o SubNames(Tail(tps))

\* the query list of a well-formed topic list: top-level names, then subtopic names
ExpectedQueries(tps) == TopNames(tps) \o SubNames(tps)

\* a provider call that came back with status 200 and a parseable envelope
Answered(outcome) ==
    outcome.kind = "response" /\ outcome.status_code = 200 /\ outcome.well_formed

\* every element the entry has carries text
CleanEntry(entry) ==
    /\ \A f \in {"id", "title", "summary", "published"} :
          entry[f].present => entry[f].has_text
    /\ \A k \in 1..Len(entry.authors) : entry.authors[k].present => entry.authors[k].has_text

Returned == pc = "done" /\ response.kind = "return"

\* C5 (the claim as stated; the code violates it): for every non-empty topic
\* list, whatever the provider answers, find_related_papers returns a sequence
\* and raises nothing.
C5_NeverFailsAsAWhole ==
    (pc = "done" /\ Len(topics) > 0) => response.kind = "return"

RECURSIVE TagsOfAllEntries(_)
\* one tag (the query string) per entry of every answered call, in call order
TagsOfAllEntries(log) ==
    IF log = <<>> THEN <<>>
    ELSE (IF Answered(Head(log).outcome)
          THEN [k \in 1..Len(Head(log).outcome.entries) |-> Head(log).topic_name]
          ELSE <<>>) \o TagsOfAllEntries(Tail(log))

RECURSIVE CleanOnly(_)
CleanOnly(entries) ==
    IF entries = <<>> THEN <<>>
    ELSE (IF CleanEntry(Head(entries)) THEN <<Head(entries)>> ELSE <<>>) \o CleanOnly(Tail(entries))

RECURSIVE TaggedCleanEntries(_)
\* <<tag, entry>> per clean entry of every answered call, in call and reply order
TaggedCleanEntries(log) ==
    IF log = <<>> THEN <<>>
    ELSE (IF Answered(Head(log).outcome)
          THEN [k \in 1..Len(CleanOnly(Head(log).outcome.entries)) |->
                   <<Head(log).topic_name, CleanOnly(Head(log).outcome.entries)[k]>>]
          ELSE <<>>) \o TaggedCleanEntries(Tail(log))

\* the record `paper` is the one emitted for `entry`: the id is the last path
\* segment, and an absent id is the sentinel
SameId(paper, entry) ==
    paper.id = IF entry.id.present THEN AfterLast(entry.id.text, "/") ELSE Str_id_not_found

\* C6 (the claim as stated; the code violates it): for a well-formed topic list
\* one provider call is issued per query, the queries being the top-level names
\* and then the subtopic names, and the result holds one record per entry of
\* every answered call, in query and reply order, tagged with its query.
C6_ResultIsAllEntriesOfAnsweredCalls ==
    (pc = "done" /\ WellFormedTree(topics)) =>
        /\ response.kind = "return"
        /\ [i \in 1..Len(provider_log) |-> provider_log[i].topic_name] = ExpectedQueries(topics)
        /\ [k \in 1..Len(response.value) |-> response.value[k].topic]
              = TagsOfAllEntries(provider_log)

\* C6 (amended): as C6, the result holding one record per entry whose elements
\* all carry text; an entry with an empty element (the per-entry except clause)
\* contributes nothing, like a failed call, and stops no later entry or query.
C6_ResultIsCleanEntriesOfAnsweredCalls ==
    (pc = "done" /\ WellFormedTree(topics)) =>
        /\ response.kind = "return"
        /\ [i \in 1..Len(provider_log) |-> provider_log[i].topic_name] = ExpectedQueries(topics)
        /\ \A i \in 1..Len(provider_log) : provider_log[i].query = Quote(provider_log[i].topic_name)
        /\ Len(response.value) = Len(TaggedCleanEntries(provider_log))
        /\ \A k \in 1..Len(response.value) :
              /\ response.value[k].topic = TaggedCleanEntries(provider_log)[k][1]
              /\ SameId(response.value[k], TaggedCleanEntries(provider_log)[k][2])

\* C6 witness: three queries, the second call failed, the first and third answered;
\* the result holds the first call's entry and then the third call's entries
C6_Witness ==
    /\ Returned
    /\ WellFormedTree(topics)
    /\ Len(provider_log) = 3
    /\ Answered(provider_log[1].outcome)
    /\ ~Answered(provider_log[2].outcome)
    /\ Answered(provider_log[3].outcome)
    /\ Len(provider_log[1].outcome.entries) = 1
    /\ Len(provider_log[3].outcome.entries) = 2
    /\ Len(response.value) = 3
    /\ response.value[1].topic = provider_log[1].topic_name
    /\ response.value[3].topic = provider_log[3].topic_name


MainFields == {"id", "title", "summary", "published"}

Sentinel(f) ==
    CASE f = "id"        -> Str_id_not_found
      [] f = "title"     -> Str_title_not_found
      [] f = "summary"   -> Str_no_abstract_available
      [] f = "published" -> Str_date_not_available

HasMissingField(entry) == \E f \in MainFields : ~entry[f].present

\* the step appended exactly one record, and it holds the sentinel of every
\* field the entry lacks and the query as its tag
EmitsOneFor(entry, topic_name) ==
    /\ Len(related_papers') = Len(related_papers) + 1
    /\ SubSeq(related_papers', 1, Len(related_papers)) = related_papers
    /\ \A f \in MainFields :
          ~entry[f].present => related_papers'[Len(related_papers')][f] = Sentinel(f)
    /\ related_papers'[Len(related_papers')].topic = topic_name

\* the provider call the step has just made
NewCall == provider_log'[Len(provider_log')]

\* the step handled a query whose call was answered with the single entry NewCall holds
AnsweredWithOneEntry ==
    /\ Len(provider_log') = Len(provider_log) + 1
    /\ Answered(NewCall.outcome)
    /\ Len(NewCall.outcome.entries) = 1

\* C7 (the claim as stated; the code violates it): every entry of an answered
\* call that lacks one of id, title, summary, published yields exactly one
\* record, with the sentinel in each missing field.
C7_MissingFieldsAlwaysFilled ==
    [][ (AnsweredWithOneEntry /\ HasMissingField(NewCall.outcome.entries[1]))
            => EmitsOneFor(NewCall.outcome.entries[1], NewCall.topic_name) ]_vars

\* C7 (amended): an entry that lacks one of id, title, summary, published and
\* whose remaining elements (author names included) all carry text yields
\* exactly one record, with the sentinel in each missing field; an entry with
\* an element that is present but empty yields no record and no error.
C7_MissingFieldsFilledWhenClean ==
    [][ AnsweredWithOneEntry =>
          /\ (HasMissingField(NewCall.outcome.entries[1]) /\ CleanEntry(NewCall.outcome.entries[1]))
                => EmitsOneFor(NewCall.outcome.entries[1], NewCall.topic_name)
          /\ ~CleanEntry(NewCall.outcome.entries[1]) => related_papers' = related_papers
          /\ pc' = "search_loop" ]_vars

\* C7 witness: an entry without any of the four fields has been answered, and the
\* record appended for it holds the four sentinels
C7_Witness ==
    /\ provider_log # <<>>
    /\ related_papers # <<>>
    /\ LET call == provider_log[Len(provider_log)]
           paper == related_papers[Len(related_papers)]
       IN  /\ Answered(call.outcome)
           /\ Len(call.outcome.entries) = 1
           /\ \A f \in MainFields : call.outcome.entries[1][f] = NoElem
           /\ paper.id = Str_id_not_found
           /\ paper.title = Str_title_not_found
           /\ paper.summary = Str_no_abstract_available
           /\ paper.published = Str_date_not_available
           /\ paper.topic = call.topic_name


----------------------------------------------------------------------------
(* Properties of create_graph_data (specification SpecGraph) *)

Distinct(seq) == \A i, j \in 1..Len(seq) : i # j => seq[i] # seq[j]

NodeIds(graph) == [k \in 1..Len(graph.nodes) |-> graph.nodes[k].id]

IdSet(graph) == {graph.nodes[k].id : k \in 1..Len(graph.nodes)}

TopNamesDistinct(tps) == Distinct([i \in 1..Len(tps) |-> tps[i].topic])

\* no top-level name is another top-level name followed by "_" and more text
NoNameExtendsAnother(tps) ==
    \A i, j \in 1..Len(tps) : ~StartsWith(tps[j].topic, tps[i].topic \o <<"_">>)

SubNamesDistinctPerTopic(tps) ==
    \A i \in 1..Len(tps) :
        Distinct([j \in 1..Len(GetSubtopics(tps[i])) |-> GetSubtopics(tps[i])[j].topic])

\* C8 (the claim as stated; the code violates it): when the top-level topic
\* names are pairwise distinct, the node ids of the returned graph are pairwise
\* distinct.
C8_DistinctTopNamesGiveDistinctIds ==
    (Returned /\ TopNamesDistinct(topics)) => Distinct(NodeIds(response.graph))

\* C8 (amended): the node ids are pairwise distinct when the top-level names are
\* pairwise distinct, no top-level name is another one followed by "_" and more
\* text, and the subtopic names are pairwise distinct within each topic.
C8_DistinctIdsUnderDistinctNames ==
    (/\ Returned
     /\ TopNamesDistinct(topics)
     /\ NoNameExtendsAnother(topics)
     /\ SubNamesDistinctPerTopic(topics)) => Distinct(NodeIds(response.graph))

\* C8 witness: two topics with different names share a subtopic name, and the
\* five ids of the graph differ
C8_Witness ==
    /\ Returned
    /\ Len(topics) = 2
    /\ topics[1].topic # topics[2].topic
    /\ NoNameExtendsAnother(topics)
    /\ Len(GetSubtopics(topics[1])) = 1
    /\ Len(GetSubtopics(topics[2])) = 1
    /\ GetSubtopics(topics[1])[1].topic = GetSubtopics(topics[2])[1].topic
    /\ Cardinality(IdSet(response.graph)) = 5

RECURSIVE ItemsInOrder(_)
\* the topics and subtopics in the order the loop visits them: each topic, then
\* its subtopics
ItemsInOrder(tps) ==
    IF tps = <<>> THEN <<>>
    ELSE <<Head(tps)>> \o GetSubtopics(Head(tps)) \o ItemsInOrder(Tail(tps))

LinkEndsExist(graph) ==
    \A k \in 1..Len(graph.links) :
        graph.links[k].source \in IdSet(graph) /\ graph.links[k].target \in IdSet(graph)

\* node m + 1 represents item m; a link's value is the importance of every item
\* whose node carries the link's target id
ValueMatchesEveryTarget(graph, items) ==
    \A k \in 1..Len(graph.links) : \A m \in 1..Len(items) :
        graph.nodes[m + 1].id = graph.links[k].target =>
            graph.links[k].value = items[m].importance

\* C9 (the claim as stated; the code violates it): in every returned graph the
\* ends of every link are ids of nodes of the graph, and the link's value is the
\* importance of the topic or subtopic of every node that carries the target id.
C9_LinkValueIsImportanceOfTargetId ==
    Returned =>
        /\ Len(response.graph.nodes) = Len(ItemsInOrder(topics)) + 1
        /\ LinkEndsExist(response.graph)
        /\ ValueMatchesEveryTarget(response.graph, ItemsInOrder(topics))

\* C9 (amended): in every returned graph the ends of every link are ids of nodes
\* of the graph; link k targets node k + 1, the node appended with it, and its
\* value is the importance of that node's topic or subtopic; when the node ids
\* are pairwise distinct this is the only node with the target id.
C9_LinkValueIsImportanceOfItsNode ==
    Returned =>
        /\ Len(response.graph.nodes) = Len(ItemsInOrder(topics)) + 1
        /\ Len(response.graph.links) = Len(ItemsInOrder(topics))
        /\ LinkEndsExist(response.graph)
        /\ \A k \in 1..Len(response.graph.links) :
              /\ response.graph.links[k].target = response.graph.nodes[k + 1].id
              /\ response.graph.links[k].value = ItemsInOrder(topics)[k].importance
        /\ Distinct(NodeIds(response.graph)) =>
              ValueMatchesEveryTarget(response.graph, ItemsInOrder(topics))

\* C9 witness: two topics of the same name and different importance; both links
\* from the main node target the shared id and keep their own values
C9_Witness ==
    /\ Returned
    /\ Len(topics) = 2
    /\ topics[1].topic = topics[2].topic
    /\ topics[1].importance # topics[2].importance
    /\ Len(response.graph.links) >= 3
    /\ response.graph.links[1].value = topics[1].importance
    /\ \E k \in 2..Len(response.graph.links) :
          /\ response.graph.links[k].target = response.graph.links[1].target
          /\ response.graph.links[k].value = topics[2].importance

RECURSIVE TotalSubtopics(_)
TotalSubtopics(tps) ==
    IF tps = <<>> THEN 0 ELSE Len(Head(tps).subtopics) + TotalSubtopics(Tail(tps))

\* five well-formed topics with at most three subtopics each
ValidTree(tps) ==
    /\ Len(tps) = NumTopics
    /\ WellFormedTree(tps)
    /\ \A i \in 1..Len(tps) : Len(tps[i].subtopics) <= MaxSubtopics

MainNodes(graph) == {k \in 1..Len(graph.nodes) : graph.nodes[k].group = "main"}

\* C10: for five topics with at most three subtopics each, create_graph_data
\* returns 1 + 5 + (number of subtopics) nodes and 5 + (number of subtopics)
\* links, and exactly one node of group "main".
C10_NodeAndLinkCounts ==
    (pc = "done" /\ ValidTree(topics)) =>
        /\ response.kind = "return"
        /\ Len(response.graph.nodes) = 1 + NumTopics + TotalSubtopics(topics)
        /\ Len(response.graph.links) = NumTopics + TotalSubtopics(topics)
        /\ Cardinality(MainNodes(response.graph)) = 1

\* C10 witness: five topics with three subtopics each gave 21 nodes and 20 links
C10_Witness ==
    /\ Returned
    /\ ValidTree(topics)
    /\ TotalSubtopics(topics) = NumTopics * MaxSubtopics
    /\ Len(response.graph.nodes) = 21
    /\ Len(response.graph.links) = 20


====
